---- MODULE Spec2Model ----
(***************************************************************************)
(* Model of melinda-batch-update-cli: the fixmultiple branch of cli.js,    *)
(* the recursive batch walk fixAll, and validateRecord / fix of            *)
(* operations.js.  Asynchronous calls (fix, saveToDb, sleep) are modelled  *)
(* as operations that are started in one step and settle in a later one;   *)
(* the synchronous code between two awaits is one atomic action.           *)
(***************************************************************************)
EXTENDS Integers, Sequences, FiniteSets, TLC

(***************************************************************************)
(* Bounds of the model.                                                    *)
(***************************************************************************)
\* the id file holds at most MaxIds valid record ids
MaxIds == 3
\* the chunksize option ranges over -1 .. MaxChunk
MaxChunk == 2
\* every id string of at most MaxIdLen characters over IdChars is tried
MaxIdLen == 3
\* the backup store holds at most MaxDb entries
MaxDb == 3

(***************************************************************************)
(* Program constants.                                                      *)
(***************************************************************************)
\* cli.js:196  const chunk = argv.c || 5
DefaultChunk == 5
\* cli.js:253  await sleep(60000 * 20)
SleepMinutes == 20
\* operations.js isValid: Number(id) < 100000000
IdLimit == 100000000
\* local time of day, in hours
HoursPerDay == 24

\* argv.t when the option is not given
NoWindow == <<>>
\* operations.js:138  let revalidationResults = ''
NoReport == ""
\* a ValidationReport, opaque
Report == "report"

\* hours at which the gate is observed: the first hour of the window 17-06,
\* the first hour after it, and an hour well inside each window
Hours == {h \in 0 .. (HoursPerDay - 1) : h \in {6, 10, 17, 20}}
\* argv.t: not given, "17-06" (wraps past midnight), "08-16"
Windows == {NoWindow, <<17, 6>>, <<8, 16>>}
\* argv.c
ChunkOptions == (0 - 1) .. MaxChunk
\* the token generateBatchId returns
BatchIds == {"b1"}

VARIABLES
    processEnv,  \* process.env: which of the VALIDATE_ variables are set
    argv_t,      \* argv.t, the configured time window
    argv_c,      \* argv.c, the chunksize option
    file,        \* the trimmed lines of the id file, as numbers
    phase,       \* "cli", "error", "sleeping", "fixing", "rejected", "done"
    idChunks,    \* argument idChunks of the current fixAll invocation
    total,       \* argument total
    batchId,     \* argument batchId
    results,     \* one slot per id of head: pending, undefined or a FixOutcome
    started,     \* the ids fix was invoked with, in invocation order
    saves,       \* the saveToDb calls issued, in call order; a call's
                 \* argument is kept until its promise settles
    db,          \* the backup entries, in insertion order
    progress,    \* the progress reports logged, in order
    topPromise,  \* the promise the first fixAll call returned
    isTop,       \* the current invocation is the first fixAll call
    now,         \* hour read by the last gate check
    timer,       \* minutes of the pending sleep, 0 when none
    call         \* the last direct call of validateRecord or fix, and its result

vars == <<processEnv, argv_t, argv_c, file, phase, idChunks, total, batchId,
          results, started, saves, db, progress, topPromise, isTop, now, timer, call>>

(***************************************************************************)
(* Pure helpers.                                                           *)
(***************************************************************************)
RECURSIVE SeqFilter(_, _)
SeqFilter(s, keep) ==
    IF s = <<>> THEN <<>>
    ELSE IF Head(s) \in keep THEN <<Head(s)>> \o SeqFilter(Tail(s), keep)
         ELSE SeqFilter(Tail(s), keep)

RECURSIVE SumLen(_)
SumLen(chunks) ==
    IF chunks = <<>> THEN 0 ELSE Len(Head(chunks)) + SumLen(Tail(chunks))

RECURSIVE Flatten(_)
Flatten(chunks) ==
    IF chunks = <<>> THEN <<>> ELSE Head(chunks) \o Flatten(Tail(chunks))

Max(a, b) == IF a > b THEN a ELSE b
Min(a, b) == IF a < b THEN a ELSE b

\* the upper limit taken as inclusive
isValid_Inclusive(id) == id > 0 /\ id <= IdLimit

\* operations.js isValid, on the number Number(id)
isValid(id) == id > 0 /\ id < IdLimit

(***************************************************************************)
(* Record ids as text: a sequence of characters.  Number(id) of JavaScript *)
(* for decimal text: white space around the numeral is dropped, the empty  *)
(* text is 0, a numeral is an optional sign and digits, anything else is   *)
(* NaN.  A value of IdLimit or more is kept as IdLimit.                    *)
(***************************************************************************)
DigitChars == <<"0", "1", "2", "3", "4", "5", "6", "7", "8", "9">>
Digits == {DigitChars[i] : i \in DOMAIN DigitChars}
DigitVal(c) == (CHOOSE i \in DOMAIN DigitChars : DigitChars[i] = c) - 1

RECURSIVE TrimLeft(_)
TrimLeft(s) ==
    IF s # <<>> /\ Head(s) = " " THEN TrimLeft(Tail(s)) ELSE s

RECURSIVE TrimRight(_)
TrimRight(s) ==
    IF s # <<>> /\ s[Len(s)] = " " THEN TrimRight(SubSeq(s, 1, Len(s) - 1)) ELSE s

RECURSIVE DigitsValue(_, _)
DigitsValue(s, acc) ==
    IF s = <<>> THEN acc
    ELSE DigitsValue(Tail(s), Min(acc * 10 + DigitVal(Head(s)), IdLimit))

JsNumber(s) ==
    LET t == TrimRight(TrimLeft(s))
        signed == t # <<>> /\ Head(t) \in {"+", "-"}
        digs == IF signed THEN Tail(t) ELSE t
    IN  IF t = <<>> THEN [nan |-> FALSE, val |-> 0]
        ELSE IF digs = <<>> \/ \E i \in DOMAIN digs : digs[i] \notin Digits
        THEN [nan |-> TRUE, val |-> 0]
        ELSE [nan |-> FALSE,
              val |-> IF Head(t) = "-" THEN 0 - DigitsValue(digs, 0)
                      ELSE DigitsValue(digs, 0)]

\* lodash _.chunk(array, size)
RECURSIVE Slices(_, _)
Slices(array, size) ==
    IF array = <<>> THEN <<>>
    ELSE <<SubSeq(array, 1, Min(size, Len(array)))>>
         \o Slices(SubSeq(array, Min(size, Len(array)) + 1, Len(array)), size)

Chunk(array, size) ==
    IF Len(array) = 0 \/ Max(size, 0) < 1 THEN <<>> ELSE Slices(array, Max(size, 0))

\* argv.c || 5
ChunkSize(c) == IF c = 0 THEN DefaultChunk ELSE c

\* TimeWindow {startHour, endHour}; startHour > endHour wraps past midnight
isWithinTimeinterval(t, hour) ==
    IF t = NoWindow THEN TRUE
    ELSE IF t[1] > t[2] THEN hour >= t[1] \/ hour < t[2]
    ELSE hour >= t[1] /\ hour < t[2]

(***************************************************************************)
(* Collaborators.  The catalog client and the validator are external; a    *)
(* call's behaviour is an input e of the call:                             *)
(*   e.load   : loadRecord returns a record, returns nothing, or throws    *)
(*   e.v1, e.v2 : the first / second validate call leaves the record as    *)
(*              it is, rewrites it in place, or throws                     *)
(*   e.update : updateRecord acknowledges or rejects                       *)
(***************************************************************************)
Envs ==
    [load : {"ok", "none", "error"},
     v1 : {"same", "mutate", "throw"},
     v2 : {"same", "mutate", "throw"},
     update : {"ok", "reject"}]

\* the record the catalog holds for id
CatalogRecord(id) == [id |-> id, body |-> id % 2]

\* validate(record) mutates the record in place
Validated(record, v) ==
    IF v = "mutate" THEN [record EXCEPT !.body = 1 - record.body] ELSE record

\* Record.clone: a deep, independent copy
RecordClone(record) == record

\* a comparison of references: a clone is never the record it was cloned from
RecordIsEqual_Reference(a, b) == FALSE

\* Record.isEqual: deep structural comparison
RecordIsEqual(a, b) == a = b

\* operations.js validateRecord
validateRecord(id, e) ==
    IF ~isValid(id)
    THEN [kind |-> "throw", error |-> "InvalidId", loads |-> 0, validates |-> 0]
    ELSE IF e.load = "error"
    THEN [kind |-> "throw", error |-> "FetchFailed", loads |-> 1, validates |-> 0]
    ELSE IF e.load = "none"
    THEN [kind |-> "null", loads |-> 1, validates |-> 0]
    ELSE
      LET record0 == CatalogRecord(id)
          originalRec == RecordClone(record0)
          record1 == Validated(record0, e.v1)
          record2 == Validated(record1, e.v2)
      IN  IF e.v1 = "throw"
          THEN [kind |-> "throw", error |-> "ValidatorFailure",
                loads |-> 1, validates |-> 1]
          ELSE IF ~RecordIsEqual(originalRec, record1)
          THEN IF e.v2 = "throw"
               THEN [kind |-> "throw", error |-> "ValidatorFailure",
                     loads |-> 1, validates |-> 2]
               ELSE [kind |-> "ok", loads |-> 1, validates |-> 2,
                     afterFirst |-> record1,
                     value |-> [originalRecord |-> originalRec,
                                results |-> [validators |-> Report],
                                revalidationResults |-> Report,
                                validatedRecord |-> record2]]
          ELSE [kind |-> "ok", loads |-> 1, validates |-> 1,
                afterFirst |-> record1,
                value |-> [originalRecord |-> originalRec,
                           results |-> [validators |-> Report],
                           revalidationResults |-> NoReport,
                           validatedRecord |-> record1]]

\* operations.js validateRecord for an id given as text: NaN fails both
\* comparisons of isValid
validateRecordText(s, e) ==
    IF JsNumber(s).nan
    THEN [kind |-> "throw", error |-> "InvalidId", loads |-> 0, validates |-> 0]
    ELSE validateRecord(JsNumber(s).val, e)

\* fix reading validatedRecord without failing on a missing validation result
fix_NoNullFailure(id, e) ==
    LET validationRes == validateRecord(id, e)
    IN  IF validationRes.kind = "throw"
        THEN [kind |-> "rejected", error |-> validationRes.error, updates |-> <<>>]
        ELSE IF validationRes.kind = "null"
        THEN IF e.update = "reject"
             THEN [kind |-> "rejected", error |-> "UpdateFailed",
                   updates |-> <<[id |-> id, body |-> 0 - 1]>>]
             ELSE [kind |-> "ok", updates |-> <<[id |-> id, body |-> 0 - 1]>>,
                   value |-> [updateResponse |-> "ack"]]
        ELSE IF e.update = "reject"
        THEN [kind |-> "rejected", error |-> "UpdateFailed",
              updates |-> <<validationRes.value.validatedRecord>>]
        ELSE [kind |-> "ok",
              updates |-> <<validationRes.value.validatedRecord>>,
              value |-> [originalRecord |-> validationRes.value.originalRecord,
                         results |-> validationRes.value.results,
                         revalidationResults |-> validationRes.value.revalidationResults,
                         validatedRecord |-> validationRes.value.validatedRecord,
                         updateResponse |-> "ack"]]

\* operations.js fix
fix(id, e) ==
    LET validationRes == validateRecord(id, e)
    IN  IF validationRes.kind = "throw"
        THEN [kind |-> "rejected", error |-> validationRes.error, updates |-> <<>>]
        ELSE IF validationRes.kind = "null"
        THEN [kind |-> "rejected", error |-> "TypeError", updates |-> <<>>]
        ELSE IF e.update = "reject"
        THEN [kind |-> "rejected", error |-> "UpdateFailed",
              updates |-> <<validationRes.value.validatedRecord>>]
        ELSE [kind |-> "ok",
              updates |-> <<validationRes.value.validatedRecord>>,
              value |-> [originalRecord |-> validationRes.value.originalRecord,
                         results |-> validationRes.value.results,
                         revalidationResults |-> validationRes.value.revalidationResults,
                         validatedRecord |-> validationRes.value.validatedRecord,
                         updateResponse |-> "ack"]]

(***************************************************************************)
(* The batch walk, cli.js fixAll.                                          *)
(***************************************************************************)
PendingSlot == [state |-> "pending"]
UndefinedSlot == [state |-> "undefined"]

\* the callback without its try/catch: a failed fix rejects the callback
Callback_NoCatch(id, f) ==
    IF f.kind = "ok"
    THEN [state |-> "value",
          res |-> [f.value EXCEPT !.results = [validators |-> f.value.results.validators,
                                               id |-> id]]]
    ELSE [state |-> "rejected"]

\* cli.js:264-274, the callback mapped over head: what its promise settles to
\* when fix(id) settled as f
Callback(id, f) ==
    IF f.kind = "ok"
    THEN [state |-> "value",
          res |-> [f.value EXCEPT !.results = [validators |-> f.value.results.validators,
                                               id |-> id]]]
    ELSE UndefinedSlot

\* the values the callback's promise for id can settle to, over all behaviours
\* of the collaborators
SlotOutcomes(id) == {Callback(id, fix(id, e)) : e \in Envs}

\* SlotOutcomes, tabulated over the ids of the model
SlotTable == [id \in 0 .. MaxIds + 1 |-> SlotOutcomes(id)]

\* results collected by pushing each one as its fix completes
SettleSlot_Push(slots, i, slot) ==
    LET j == CHOOSE j \in DOMAIN slots :
                 /\ slots[j].state = "pending"
                 /\ \A k \in DOMAIN slots : k < j => slots[k].state # "pending"
    IN  [slots EXCEPT ![j] = slot]

\* cli.js:264  Promise.all keeps the result of the i-th promise at index i
SettleSlot(slots, i, slot) == [slots EXCEPT ![i] = slot]

\* a race: the first promise to settle ends the wait
AllSettled_Race(slots) == \E j \in DOMAIN slots : slots[j].state # "pending"

\* cli.js:264  await Promise.all(...): every promise has been fulfilled
AllSettled(slots) == \A j \in DOMAIN slots : slots[j].state # "pending"

\* cli.js:257  const [head, ...tail] = idChunks
HeadOf(chunks) == IF chunks = <<>> THEN <<>> ELSE Head(chunks)
TailOf(chunks) == IF chunks = <<>> THEN <<>> ELSE Tail(chunks)

\* the recursion after the sleep made with tail
SleepRecurArg_Tail(chunks) == TailOf(chunks)

\* cli.js:254  fixAll(idChunks, total, batchId) after the sleep
SleepRecurArg(chunks) == chunks

\* cli.js:285  fixAll(tail, total, batchId)
NextRecurArg(chunks) == TailOf(chunks)

\* cli.js:282  const done = total - head.length * tail.length
DoneCount(tot, chunks) == tot - Len(HeadOf(chunks)) * Len(TailOf(chunks))

\* cli.js:284  Math.round(done / total * 100)
Percent(done, tot) == (200 * done + tot) \div (2 * tot)

\* the gate looked at for the first chunk only
GateOpen_FirstOnly(t, hour) == started # <<>> \/ isWithinTimeinterval(t, hour)

\* the gate with its negation lost
GateOpen_Inverted(t, hour) == ~isWithinTimeinterval(t, hour)

\* cli.js:249  the gate of one fixAll invocation
GateOpen(t, hour) == isWithinTimeinterval(t, hour)

\* db.js saveToDb: one BackupEntry per defined outcome, in input order
RECURSIVE BackupEntries(_, _)
BackupEntries(outcomes, b) ==
    IF outcomes = <<>> THEN <<>>
    ELSE (IF Head(outcomes).state = "value"
          THEN <<[batchId |-> b,
                  recordId |-> Head(outcomes).res.originalRecord.id,
                  originalSnapshot |-> Head(outcomes).res.originalRecord,
                  validatedSnapshot |-> Head(outcomes).res.validatedRecord]>>
          ELSE <<>>)
         \o BackupEntries(Tail(outcomes), b)

\* cli.js:247-262: the synchronous start of the invocation
\* fixAll(chunks, total, batchId), which reads the hour h at its gate;
\* top tells that it is the call made by the fixmultiple branch.
FixAllEntry(chunks, h, top) ==
    /\ now' = h
    /\ idChunks' = chunks
    /\ isTop' = top
    /\ IF ~GateOpen(argv_t, h)
       THEN /\ phase' = "sleeping"
            /\ timer' = SleepMinutes
            /\ results' = <<>>
            /\ started' = started
            /\ topPromise' = IF top THEN "pending"
                             ELSE IF isTop THEN "undefined" ELSE topPromise
       ELSE IF HeadOf(chunks) = <<>>
       THEN /\ phase' = "done"
            /\ timer' = 0
            /\ results' = <<>>
            /\ started' = started
            /\ topPromise' = IF top THEN "Done"
                             ELSE IF isTop THEN "undefined" ELSE topPromise
       ELSE /\ phase' = "fixing"
            /\ timer' = 0
            /\ results' = [i \in 1 .. Len(HeadOf(chunks)) |-> PendingSlot]
            /\ started' = started \o HeadOf(chunks)
            /\ topPromise' = IF top THEN "pending"
                             ELSE IF isTop THEN "undefined" ELSE topPromise

\* process.env: TRUE for a variable that is set to a non-empty value
ProcessEnvs == [VALIDATE_API : BOOLEAN, VALIDATE_USER : BOOLEAN, VALIDATE_PASS : BOOLEAN]

FullEnv == [VALIDATE_API |-> TRUE, VALIDATE_USER |-> TRUE, VALIDATE_PASS |-> TRUE]

\* the argument of checkEnvVars: true, false, or none, which makes creds the
\* string 'false' of the default parameter; a non-empty string is truthy
CredsArgs == {"true", "false", "default"}
Truthy(creds) == creds # "false"

\* cli.js:112-122 checkEnvVars; && binds tighter than ||
checkEnvVars(creds, e) ==
    IF ~e.VALIDATE_API THEN "throw VALIDATE_API"
    ELSE IF (Truthy(creds) /\ ~e.VALIDATE_USER) \/ ~e.VALIDATE_PASS
    THEN "throw VALIDATE_USER/PASS"
    ELSE "true"

\* cli.js:187-190  the lines of the file that are valid ids
ValidIds(lines) == SeqFilter(lines, {id \in 0 .. MaxIds + 1 : isValid(id)})

\* cli.js:180-203, the fixmultiple branch
FixMultiple ==
    /\ phase = "cli"
    /\ LET ids == ValidIds(file)
       IN  IF checkEnvVars("true", processEnv) # "true" \/ Len(ids) < 1
           THEN /\ phase' = "error"
                /\ UNCHANGED <<idChunks, total, batchId, results, started,
                               topPromise, isTop, now, timer>>
           ELSE /\ total' = Len(ids)
                /\ \E b \in BatchIds : batchId' = b
                /\ \E h \in Hours : FixAllEntry(Chunk(ids, ChunkSize(argv_c)), h, TRUE)
    /\ UNCHANGED <<processEnv, argv_t, argv_c, file, saves, db, progress, call>>

\* cli.js:253-254: the sleep is over, fixAll calls itself
Wake ==
    /\ phase = "sleeping"
    /\ \E h \in Hours : FixAllEntry(SleepRecurArg(idChunks), h, FALSE)
    /\ UNCHANGED <<processEnv, argv_t, argv_c, file, total, batchId, saves, db, progress, call>>

\* cli.js:264-285: fix(id) of slot i settles and its callback returns; a
\* rejected callback rejects Promise.all and with it the invocation; when the
\* last callback of the chunk has returned, Promise.all is fulfilled and the
\* rest of fixAll runs
FixSettle(i) ==
    /\ phase = "fixing"
    /\ i \in DOMAIN results
    /\ results[i].state = "pending"
    /\ \E slot \in SlotTable[HeadOf(idChunks)[i]] :
       LET settled == SettleSlot(results, i, slot)
       IN  IF slot.state = "rejected"
           THEN /\ results' = settled
                /\ phase' = "rejected"
                /\ topPromise' = IF isTop THEN "rejected" ELSE topPromise
                /\ UNCHANGED <<idChunks, started, saves, progress, isTop, now, timer>>
           ELSE IF ~AllSettled(settled)
           THEN /\ results' = settled
                /\ UNCHANGED <<phase, idChunks, started, saves, progress,
                               topPromise, isTop, now, timer>>
           ELSE /\ saves' = Append(saves, [outcomes |-> settled,
                                           batchId |-> batchId,
                                           state |-> "pending"])
                /\ progress' = Append(progress,
                       [done |-> DoneCount(total, idChunks),
                        percent |-> Percent(DoneCount(total, idChunks), total)])
                /\ \E h \in Hours : FixAllEntry(NextRecurArg(idChunks), h, FALSE)
    /\ UNCHANGED <<processEnv, argv_t, argv_c, file, total, batchId, db, call>>

\* cli.js:276-280: the promise of the k-th saveToDb call settles
SaveSettle(k, ok) ==
    /\ k \in DOMAIN saves
    /\ saves[k].state = "pending"
    /\ IF ok
       THEN /\ saves' = [saves EXCEPT ![k].state = "saved", ![k].outcomes = <<>>]
            /\ db' = db \o BackupEntries(saves[k].outcomes, saves[k].batchId)
       ELSE /\ saves' = [saves EXCEPT ![k].state = "failed", ![k].outcomes = <<>>]
            /\ db' = db
    /\ UNCHANGED <<processEnv, argv_t, argv_c, file, phase, idChunks, total, batchId, results,
                   started, progress, topPromise, isTop, now, timer, call>>

\* the id files: the lines 0, 1, .., n-1; line 0 is no valid id
Files == {[i \in 1 .. n |-> i - 1] : n \in 0 .. MaxIds + 1}

Init ==
    /\ processEnv \in ProcessEnvs
    /\ argv_t \in Windows
    /\ argv_c \in ChunkOptions
    /\ file \in Files
    /\ phase = "cli"
    /\ idChunks = <<>>
    /\ total = 0
    /\ batchId = ""
    /\ results = <<>>
    /\ started = <<>>
    /\ saves = <<>>
    /\ db = <<>>
    /\ progress = <<>>
    /\ topPromise = "none"
    /\ isTop = FALSE
    /\ now = 0
    /\ timer = 0
    /\ call = [op |-> "none"]

Next ==
    \/ FixMultiple
    \/ Wake
    \/ \E i \in 1 .. DefaultChunk : FixSettle(i)
    \/ \E k \in 1 .. MaxIds + 1, ok \in BOOLEAN : SaveSettle(k, ok)

Spec == Init /\ [][Next]_vars

(***************************************************************************)
(* Scheduling: every started fix and every saveToDb call settles, the      *)
(* sleep timer fires, and a gate check after a sleep eventually reads an   *)
(* hour inside the window.                                                 *)
(***************************************************************************)
FixSettles == \E i \in 1 .. DefaultChunk : FixSettle(i)
SaveSettles == \E k \in 1 .. MaxIds + 1, ok \in BOOLEAN : SaveSettle(k, ok)
WakeInWindow == Wake /\ isWithinTimeinterval(argv_t, now')

LiveSpec ==
    /\ Spec
    /\ WF_vars(FixMultiple)
    /\ WF_vars(FixSettles)
    /\ WF_vars(SaveSettles)
    /\ WF_vars(WakeInWindow)

(***************************************************************************)
(* Direct calls of validateRecord and fix, with every behaviour of the     *)
(* collaborators.                                                          *)
(***************************************************************************)
OpIds == {0, 1, 2, IdLimit}

\* Direct calls of the operations, made with the environment of the catalog
\* client set.
CallValidateRecord(id, e) ==
    /\ call.op = "none"
    /\ processEnv = FullEnv
    /\ call' = [op |-> "validateRecord", id |-> id, env |-> e,
                ret |-> validateRecord(id, e)]
    /\ UNCHANGED <<processEnv, argv_t, argv_c, file, phase, idChunks, total, batchId, results,
                   started, saves, db, progress, topPromise, isTop, now, timer>>

CallFix(id, e) ==
    /\ call.op = "none"
    /\ processEnv = FullEnv
    /\ call' = [op |-> "fix", id |-> id, env |-> e, ret |-> fix(id, e)]
    /\ UNCHANGED <<processEnv, argv_t, argv_c, file, phase, idChunks, total, batchId, results,
                   started, saves, db, progress, topPromise, isTop, now, timer>>

\* the characters of the id strings tried exhaustively
IdChars == {"0", "1", "9", " ", "-", "+", "!"}

RECURSIVE TextsUpTo(_)
TextsUpTo(n) ==
    IF n = 0 THEN {<<>>}
    ELSE LET shorter == TextsUpTo(n - 1)
         IN  shorter \cup {Append(t, c) : t \in shorter, c \in IdChars}

\* the ids of operations.spec.js:79-91 and the ids next to the limit
LongTextIds ==
    {<<"0", "0", "9", "8", "7", "7", "3", "4", "9">>,
     <<"M", "O", "I", "K", "K", "A", "!">>,
     <<"1", "2", "3", "!">>,
     <<"1", " ", "2", "3">>,
     <<"1", "2", "3", "0", "1", "9", "8", "2", "4", "9", "8", "1", "2", "7", "4",
       "9", "8", "1", "2", "7", "4">>,
     <<"9", "9", "9", "9", "9", "9", "9", "9">>,
     <<" ", "0", "9", "9", "9", "9", "9", "9", "9", "9">>,
     <<"1", "0", "0", "0", "0", "0", "0", "0", "0">>,
     <<"0", "1", "0", "0", "0", "0", "0", "0", "0", "0">>}

TextIds == TextsUpTo(MaxIdLen) \cup LongTextIds

CallValidateRecordText(s, e) ==
    /\ call.op = "none"
    /\ processEnv = FullEnv
    /\ call' = [op |-> "validateRecordText", id |-> s, env |-> e,
                ret |-> validateRecordText(s, e)]
    /\ UNCHANGED <<processEnv, argv_t, argv_c, file, phase, idChunks, total, batchId, results,
                   started, saves, db, progress, topPromise, isTop, now, timer>>

\* saveToDb called whether or not fix resolved
SingleFixSaves_Always(r, b) ==
    <<[outcomes |-> IF r.kind = "ok" THEN <<[state |-> "value", res |-> r.value]>>
                    ELSE <<UndefinedSlot>>,
       batchId |-> b]>>

\* cli.js:167-172: the saveToDb calls of the fix branch: the then-callback
\* runs only when fix(parsedId) resolved, with its result res
SingleFixSaves(r, b) ==
    IF r.kind = "ok"
    THEN <<[outcomes |-> <<[state |-> "value", res |-> r.value]>>, batchId |-> b]>>
    ELSE <<>>

\* cli.js:173-178: 'Success.' is logged by the then-callback after saveToDb,
\* every rejection of the chain by the catch-callback
SingleFixLog(r, saveOk) ==
    IF r.kind = "ok" /\ saveOk THEN "Success." ELSE "Updating record failed"

\* cli.js:163-179, the fix branch (argv.f) for the record id, the
\* collaborators behaving as e and the saveToDb promise fulfilled iff saveOk
CliFix(id, e, b, saveOk) ==
    /\ call.op = "none"
    /\ IF checkEnvVars("true", processEnv) # "true"
       THEN /\ call' = [op |-> "cli -f", thrown |-> TRUE, saveCalls |-> <<>>,
                        log |-> "none"]
            /\ db' = db
       ELSE LET r == fix(id, e)
                saveCalls == SingleFixSaves(r, b)
            IN  /\ saveCalls = <<>> => saveOk
                /\ call' = [op |-> "cli -f", thrown |-> FALSE, id |-> id, env |-> e,
                            fixRet |-> r, saveCalls |-> saveCalls,
                            saveOk |-> saveOk, log |-> SingleFixLog(r, saveOk)]
                /\ db' = IF saveCalls # <<>> /\ saveOk
                         THEN db \o BackupEntries(saveCalls[1].outcomes, b)
                         ELSE db
    /\ UNCHANGED <<processEnv, argv_t, argv_c, file, phase, idChunks, total, batchId,
                   results, started, saves, progress, topPromise, isTop, now, timer>>

(***************************************************************************)
(* The earlier revision of the tool, src/unnamed/part_000.                 *)
(***************************************************************************)
NullRecord == [null |-> TRUE]

\* part_000:36-55 fix: resolves with the validated record, or with null when
\* the catalog has no record
legacy_fix(id, e) ==
    IF ~isValid(id) THEN [kind |-> "rejected", error |-> "InvalidId"]
    ELSE IF e.load = "error" THEN [kind |-> "rejected", error |-> "FetchFailed"]
    ELSE IF e.load = "none" THEN [kind |-> "ok", value |-> NullRecord]
    ELSE
      LET record0 == CatalogRecord(id)
          originalRec == RecordClone(record0)
          record1 == Validated(record0, e.v1)
          record2 == Validated(record1, e.v2)
      IN  IF e.v1 = "throw"
          THEN [kind |-> "rejected", error |-> "ValidatorFailure"]
          ELSE IF ~RecordIsEqual(originalRec, record1)
          THEN IF e.v2 = "throw"
               THEN [kind |-> "rejected", error |-> "ValidatorFailure"]
               ELSE [kind |-> "ok", value |-> [null |-> FALSE, record |-> record2]]
          ELSE [kind |-> "ok", value |-> [null |-> FALSE, record |-> record1]]

\* part_000:57-61 save
legacy_save(record, e) ==
    IF e.update = "reject"
    THEN [kind |-> "rejected", error |-> "UpdateFailed", updates |-> <<record>>]
    ELSE [kind |-> "ok", value |-> "ack", updates |-> <<record>>]

\* part_000:63-67 validateAndFix
validateAndFix(id, e) ==
    LET record == legacy_fix(id, e)
    IN  IF record.kind = "rejected"
        THEN [kind |-> "rejected", error |-> record.error, updates |-> <<>>]
        ELSE legacy_save(record.value, e)

CallValidateAndFix(id, e) ==
    /\ call.op = "none"
    /\ processEnv = FullEnv
    /\ call' = [op |-> "validateAndFix", id |-> id, env |-> e,
                ret |-> validateAndFix(id, e)]
    /\ UNCHANGED <<processEnv, argv_t, argv_c, file, phase, idChunks, total, batchId,
                   results, started, saves, db, progress, topPromise, isTop, now,
                   timer>>

\* cli.js:112-122: a call of checkEnvVars
CallCheckEnvVars(creds) ==
    /\ call.op = "none"
    /\ call' = [op |-> "checkEnvVars", creds |-> creds,
                ret |-> checkEnvVars(creds, processEnv)]
    /\ UNCHANGED <<processEnv, argv_t, argv_c, file, phase, idChunks, total, batchId,
                   results, started, saves, db, progress, topPromise, isTop, now,
                   timer>>

OpsInit ==
    /\ processEnv \in ProcessEnvs
    /\ argv_t = NoWindow
    /\ argv_c = 0
    /\ file = <<>>
    /\ phase = "ops"
    /\ idChunks = <<>>
    /\ total = 0
    /\ batchId = ""
    /\ results = <<>>
    /\ started = <<>>
    /\ saves = <<>>
    /\ db = <<>>
    /\ progress = <<>>
    /\ topPromise = "none"
    /\ isTop = FALSE
    /\ now = 0
    /\ timer = 0
    /\ call = [op |-> "none"]

(***************************************************************************)
(* The backup store over several runs of the program: runs that save       *)
(* outcomes, the undobatch, undo and reset branches of cli.js.             *)
(***************************************************************************)
StoreBatchIds == {"b1", "b2"}
StoreRecordIds == {1, 2}
UndoIds == {0, 1, 2, 3}

\* the outcomes handed to saveToDb: a record as the catalog held it at the
\* time of the fix, and the record written back
StoreSlots ==
    {UndefinedSlot} \cup
    {[state |-> "value",
      res |-> [originalRecord |-> [id |-> i, body |-> v],
               validatedRecord |-> [id |-> i, body |-> 1 - v]]] :
       i \in StoreRecordIds, v \in {0, 1}}

StoreOutcomes == {<<x>> : x \in StoreSlots} \cup {<<x, y>> : x, y \in StoreSlots}

\* the positions of the store's entries that satisfy keep, oldest first
Positions(store, keep) == SeqFilter([i \in 1 .. Len(store) |-> i], keep)

\* reverting every entry of a record the batch touched
revertToPrevious_ByRecord(store, b, fails) ==
    LET ids == {store[i].recordId : i \in {j \in 1 .. Len(store) : store[j].batchId = b}}
        idx == Positions(store, {i \in 1 .. Len(store) : store[i].recordId \in ids})
    IN  [updates |-> [j \in 1 .. Len(idx) |->
                        [entry |-> idx[j], record |-> store[idx[j]].originalSnapshot]],
         results |-> [j \in 1 .. Len(idx) |->
                        IF idx[j] \in fails THEN "failed" ELSE "ok"]]

\* db.js revertToPrevious: a remote update with the originalSnapshot of every
\* entry of the batch; the updates of the entries in fails are rejected
revertToPrevious(store, b, fails) ==
    LET idx == Positions(store, {i \in 1 .. Len(store) : store[i].batchId = b})
    IN  [updates |-> [j \in 1 .. Len(idx) |->
                        [entry |-> idx[j], record |-> store[idx[j]].originalSnapshot]],
         results |-> [j \in 1 .. Len(idx) |->
                        IF idx[j] \in fails THEN "failed" ELSE "ok"]]

\* reverting to the oldest entry of the record
revertSingle_Oldest(store, id, updateOk) ==
    LET idx == {i \in 1 .. Len(store) : store[i].recordId = id}
    IN  IF idx = {} THEN [ret |-> "false", updates |-> <<>>]
        ELSE LET m == CHOOSE i \in idx : \A j \in idx : i <= j
             IN  [ret |-> IF updateOk THEN "true" ELSE "rejected",
                  updates |-> <<store[m].originalSnapshot>>]

\* db.js revertSingle: a remote update with the originalSnapshot of the entry
\* of the record that was inserted last
revertSingle(store, id, updateOk) ==
    LET idx == {i \in 1 .. Len(store) : store[i].recordId = id}
    IN  IF idx = {} THEN [ret |-> "false", updates |-> <<>>]
        ELSE LET m == CHOOSE i \in idx : \A j \in idx : j <= i
             IN  [ret |-> IF updateOk THEN "true" ELSE "rejected",
                  updates |-> <<store[m].originalSnapshot>>]

\* cli.js:276 / cli.js:172: a run of the fix or fixmultiple branch saves outcomes
StoreSave(outcomes, b) ==
    /\ processEnv = FullEnv
    /\ Len(db) + Len(BackupEntries(outcomes, b)) <= MaxDb
    /\ db' = db \o BackupEntries(outcomes, b)
    /\ call' = [op |-> "saveToDb"]
    /\ UNCHANGED <<processEnv, argv_t, argv_c, file, phase, idChunks, total, batchId,
                   results, started, saves, progress, topPromise, isTop, now, timer>>

\* cli.js:204-209, the undobatch branch (argv.b)
CliUndoBatch(b, fails) ==
    /\ IF checkEnvVars("default", processEnv) # "true"
       THEN call' = [op |-> "cli -b", thrown |-> TRUE]
       ELSE LET r == revertToPrevious(db, b, fails)
            IN  call' = [op |-> "cli -b", thrown |-> FALSE, b |-> b, fails |-> fails,
                         before |-> db, updates |-> r.updates, results |-> r.results,
                         log |-> "Success."]
    /\ UNCHANGED <<processEnv, argv_t, argv_c, file, phase, idChunks, total, batchId,
                   results, started, saves, db, progress, topPromise, isTop, now,
                   timer>>

\* cli.js:210-227, the undo branch (argv.u)
CliUndo(id, updateOk) ==
    /\ IF checkEnvVars("default", processEnv) # "true" \/ ~isValid(id)
       THEN call' = [op |-> "cli -u", thrown |-> TRUE]
       ELSE LET r == revertSingle(db, id, updateOk)
            IN  call' = [op |-> "cli -u", thrown |-> FALSE, id |-> id, before |-> db,
                         ret |-> r.ret, updates |-> r.updates,
                         log |-> IF r.ret = "rejected" THEN "error"
                                 ELSE IF r.ret = "true" THEN "Success."
                                 ELSE "not found in the backup database"]
    /\ UNCHANGED <<processEnv, argv_t, argv_c, file, phase, idChunks, total, batchId,
                   results, started, saves, db, progress, topPromise, isTop, now,
                   timer>>

\* cli.js:228-239, the reset branch (argv.r): wipeDatabase
CliReset ==
    /\ db' = <<>>
    /\ call' = [op |-> "cli -r"]
    /\ UNCHANGED <<processEnv, argv_t, argv_c, file, phase, idChunks, total, batchId,
                   results, started, saves, progress, topPromise, isTop, now, timer>>

StoreInit ==
    /\ processEnv \in ProcessEnvs
    /\ argv_t = NoWindow
    /\ argv_c = 0
    /\ file = <<>>
    /\ phase = "store"
    /\ idChunks = <<>>
    /\ total = 0
    /\ batchId = ""
    /\ results = <<>>
    /\ started = <<>>
    /\ saves = <<>>
    /\ db = <<>>
    /\ progress = <<>>
    /\ topPromise = "none"
    /\ isTop = FALSE
    /\ now = 0
    /\ timer = 0
    /\ call = [op |-> "none"]

StoreNext ==
    \/ \E outcomes \in StoreOutcomes, b \in StoreBatchIds : StoreSave(outcomes, b)
    \/ \E b \in StoreBatchIds :
         \E fails \in SUBSET {i \in 1 .. Len(db) : db[i].batchId = b} :
           CliUndoBatch(b, fails)
    \/ \E id \in UndoIds, updateOk \in BOOLEAN : CliUndo(id, updateOk)
    \/ CliReset

StoreSpec == StoreInit /\ [][StoreNext]_vars

\* one call per run of the program
OpsNext ==
    \/ call.op = "none" /\ \E id \in OpIds, e \in Envs : CallValidateRecord(id, e)
    \/ call.op = "none" /\ \E id \in OpIds, e \in Envs : CallFix(id, e)
    \/ call.op = "none" /\ \E s \in TextIds, e \in Envs : CallValidateRecordText(s, e)
    \/ \E creds \in CredsArgs : CallCheckEnvVars(creds)
    \/ call.op = "none" /\ \E id \in OpIds, e \in Envs, b \in BatchIds, saveOk \in BOOLEAN :
          CliFix(id, e, b, saveOk)
    \/ call.op = "none" /\ \E id \in OpIds, e \in Envs : CallValidateAndFix(id, e)

OpsSpec == OpsInit /\ [][OpsNext]_vars

(***************************************************************************)
(* Properties.                                                             *)
(***************************************************************************)
\* the chunks the fixmultiple branch hands to fixAll
Worklist == Chunk(ValidIds(file), ChunkSize(argv_c))

Walking == phase \in {"sleeping", "fixing", "rejected", "done"}

\* the number of chunks whose fixes have been started
StartedChunks ==
    Len(Worklist) - Len(idChunks) + (IF phase \in {"fixing", "rejected"} THEN 1 ELSE 0)

PendingSlots(slots) == {i \in DOMAIN slots : slots[i].state = "pending"}

\* C1: a failing fix never aborts the chunk or the walk: the invocation is
\* never rejected, every chunk handed to saveToDb has all its ids resolved,
\* as a value or as undefined, and when the walk is done every chunk of the
\* worklist was handed to saveToDb and fix was invoked for each of its ids.
C1_FailureIsolation ==
    /\ phase # "rejected"
    /\ topPromise # "rejected"
    /\ \A k \in DOMAIN saves :
         saves[k].state = "pending" =>
           /\ Len(saves[k].outcomes) = Len(Worklist[k])
           /\ \A i \in DOMAIN saves[k].outcomes :
                saves[k].outcomes[i].state \in {"value", "undefined"}
    /\ phase = "done" =>
         /\ Len(saves) = Len(Worklist)
         /\ Len(started) = SumLen(Worklist)

\* a walk of two chunks is done, and in its first chunk one fix failed and
\* another one succeeded
C1_Witness ==
    /\ phase = "done"
    /\ Len(saves) >= 2
    /\ \E i, j \in DOMAIN saves[1].outcomes :
         /\ saves[1].outcomes[i].state = "undefined"
         /\ saves[1].outcomes[j].state = "value"

\* C2: no fix of chunk N+1 is started before the saveToDb write of chunk N
\* has completed, and the writes complete in chunk order.
C2_NoCrossChunkConcurrency ==
    /\ phase = "fixing" => \A k \in DOMAIN saves : saves[k].state # "pending"
    /\ \A j, k \in DOMAIN saves :
         (j < k /\ saves[k].state # "pending") => saves[j].state # "pending"

\* C3: a suspended walk changes nothing: a step that ends in the sleep invokes
\* no fix and leaves the unconsumed chunks of the worklist as they are, and
\* no step taken from the sleep changes the worklist, the total or the batch
\* id, calls saveToDb or reports progress; this for every suspension.
C3_GateSuspension ==
    [][ /\ phase' = "sleeping" =>
             /\ started' = started
             /\ results' = <<>>
             /\ timer' = SleepMinutes
             /\ Len(idChunks') <= Len(Worklist)
             /\ idChunks' = SubSeq(Worklist, Len(Worklist) - Len(idChunks') + 1,
                                   Len(Worklist))
             /\ started' = Flatten(SubSeq(Worklist, 1, Len(Worklist) - Len(idChunks')))
        /\ phase = "sleeping" =>
             /\ idChunks' = idChunks
             /\ total' = total
             /\ batchId' = batchId
             /\ Len(saves') = Len(saves)
             /\ progress' = progress
             /\ started' = IF phase' = "fixing" THEN started \o Head(idChunks)
                           ELSE started
      ]_vars

\* window 17-06 and current time 10:00: the walk sleeps after its first
\* chunk, with chunks left
C3_Witness ==
    /\ phase = "sleeping"
    /\ argv_t = <<17, 6>>
    /\ now = 10
    /\ started # <<>>
    /\ idChunks # <<>>

\* C4: saveToDb is called with one slot per id of the chunk, in the chunk's
\* id order, every slot resolved; a slot that holds an outcome holds the
\* outcome of the id at that position.
C4_AlignedOutcomes ==
    \A k \in DOMAIN saves :
      saves[k].state = "pending" =>
        /\ k <= Len(Worklist)
        /\ Len(saves[k].outcomes) = Len(Worklist[k])
        /\ \A i \in DOMAIN saves[k].outcomes :
             LET slot == saves[k].outcomes[i]
             IN  /\ slot.state \in {"value", "undefined"}
                 /\ slot.state = "value" =>
                      /\ slot.res.results.id = Worklist[k][i]
                      /\ slot.res.originalRecord.id = Worklist[k][i]
                      /\ slot.res.updateResponse = "ack"

\* saveToDb was called with an empty first slot and an outcome in the second
C4_Witness ==
    \E k \in DOMAIN saves :
      /\ saves[k].state = "pending"
      /\ Len(saves[k].outcomes) >= 2
      /\ saves[k].outcomes[1].state = "undefined"
      /\ saves[k].outcomes[2].state = "value"

\* C5: fix is invoked for the ids in worklist order, chunk by chunk and once
\* each; the fixes of a chunk are started only when every fix of the chunk
\* before has resolved, so at most one chunk's fixes are in flight.
C5_Sequential ==
    /\ [](Walking =>
            /\ started = Flatten(SubSeq(Worklist, 1, StartedChunks))
            /\ Len(results) <= Max(ChunkSize(argv_c), 0)
            /\ (phase = "done" => started = Flatten(Worklist)))
    /\ [][started' # started => Cardinality(PendingSlots(results)) <= 1]_vars

\* the last of several chunks is in flight
C5_Witness ==
    /\ phase = "fixing"
    /\ Len(Worklist) >= 2
    /\ Len(idChunks) = 1
    /\ Cardinality(PendingSlots(results)) = Len(results)

\* C6: the k-th progress report counts the ids of the first k chunks, never
\* decreases, never exceeds total, is total after the last chunk, and its
\* percentage is round(100 * count / total).
C6_ProgressCount ==
    \A k \in DOMAIN progress :
      /\ progress[k].done = SumLen(SubSeq(Worklist, 1, k))
      /\ progress[k].done <= total
      /\ k = Len(Worklist) => progress[k].done = total
      /\ k > 1 => progress[k - 1].done <= progress[k].done
      /\ progress[k].percent = Percent(progress[k].done, total)

\* C7: the promise the first fixAll call returned is resolved only when every
\* chunk has been consumed and Done has been reached.
C7_ResolvesWhenDone ==
    topPromise \in {"Done", "undefined"} => (phase = "done" /\ idChunks = <<>>)

\* C8: a walk that was started reaches Done with an empty worklist, whatever
\* fixes and saveToDb calls fail.
C8_Termination ==
    (phase \in {"sleeping", "fixing"}) ~> (phase = "done" /\ idChunks = <<>>)

\* the walk is done although a saveToDb call failed and a fix failed
C8_Witness ==
    /\ phase = "done"
    /\ started # <<>>
    /\ \E k \in DOMAIN saves : saves[k].state = "failed"
    /\ \E k \in DOMAIN saves :
         \E i \in DOMAIN saves[k].outcomes : saves[k].outcomes[i].state = "undefined"

\* C9: fix is invoked only in a step whose gate check read an hour inside the
\* window; when the walk sleeps, the chunk before was completed and handed
\* to saveToDb, and no backup entry is ever taken back.
C9_GateEveryChunk ==
    /\ [][started' # started => isWithinTimeinterval(argv_t, now')]_vars
    /\ [][(phase = "fixing" /\ phase' = "sleeping") =>
             /\ Len(saves') = Len(saves) + 1
             /\ AllSettled(saves'[Len(saves')].outcomes)
             /\ idChunks' = Tail(idChunks)]_vars
    /\ [][Len(db') >= Len(db) /\ SubSeq(db', 1, Len(db)) = db]_vars

\* the window closed during the run: the first chunk was handed to saveToDb
\* and the walk sleeps before the next one
C9_Witness ==
    /\ phase = "sleeping"
    /\ ~isWithinTimeinterval(argv_t, now)
    /\ Len(saves) = 1
    /\ Len(idChunks) >= 1
    /\ Len(started) = Len(Worklist[1])

\* C10 as stated: revalidationResults is empty exactly when validatedRecord
\* equals originalRecord; the validator runs once when its first run left
\* the record equal to the clone and twice when not.
C10_RevalidationIffDiffers ==
    (call.op = "validateRecord" /\ call.ret.kind = "ok") =>
      /\ (call.ret.value.revalidationResults = NoReport)
           <=> (call.ret.value.validatedRecord = call.ret.value.originalRecord)
      /\ call.ret.validates =
           IF call.ret.afterFirst = call.ret.value.originalRecord THEN 1 ELSE 2

\* C10 amended: revalidationResults is empty exactly when the first run of
\* the validator left the record equal to the clone; it is non-empty
\* whenever validatedRecord differs from originalRecord; the validator runs
\* once when its first run left the record equal to the clone and twice when
\* not.
C10_RevalidationIffFirstRunMutates ==
    (call.op = "validateRecord" /\ call.ret.kind = "ok") =>
      /\ (call.ret.value.revalidationResults = NoReport)
           <=> (call.ret.afterFirst = call.ret.value.originalRecord)
      /\ (call.ret.value.validatedRecord # call.ret.value.originalRecord)
           => call.ret.value.revalidationResults # NoReport
      /\ call.ret.value.originalRecord = CatalogRecord(call.id)
      /\ call.ret.validates =
           IF call.ret.afterFirst = call.ret.value.originalRecord THEN 1 ELSE 2

\* the validator rewrote the record in its first run and again in its second
C10_Witness ==
    /\ call.op = "validateRecord"
    /\ call.ret.kind = "ok"
    /\ call.ret.validates = 2
    /\ call.ret.value.validatedRecord # call.ret.afterFirst

\* the validator runs of behaviour e do not throw
ValidatorPasses(id, e) ==
    /\ e.v1 # "throw"
    /\ (Validated(CatalogRecord(id), e.v1) # CatalogRecord(id)) => e.v2 # "throw"

\* C11: fix resolves exactly when the id is valid, the record was fetched, the
\* validator did not fail and the update was acknowledged; the outcome then
\* carries updateResponse and the one update issued carried validatedRecord;
\* in every other case fix rejects without an outcome, and for an invalid id
\* or a record not found no update is issued.
C11_FixOutcomeOnlyAfterUpdate ==
    call.op = "fix" =>
      /\ (call.ret.kind = "ok") <=>
           /\ isValid(call.id)
           /\ call.env.load = "ok"
           /\ ValidatorPasses(call.id, call.env)
           /\ call.env.update = "ok"
      /\ call.ret.kind = "ok" =>
           /\ "updateResponse" \in DOMAIN call.ret.value
           /\ call.ret.value.updateResponse = "ack"
           /\ call.ret.updates = <<call.ret.value.validatedRecord>>
      /\ call.ret.kind # "ok" =>
           /\ call.ret.kind = "rejected"
           /\ "value" \notin DOMAIN call.ret
      /\ (~isValid(call.id) \/ call.env.load # "ok") => call.ret.updates = <<>>

\* fix was called for a valid id the catalog has no record of
C11_Witness ==
    /\ call.op = "fix"
    /\ isValid(call.id)
    /\ call.env.load = "none"
    /\ call.env.update = "ok"
    /\ call.ret.kind = "rejected"

\* the text s is a decimal numeral of a number n with 0 < n < 100000000:
\* spaces, an optional plus sign, zeros, and one to eight digits of which the
\* first is not zero, spaces
RECURSIVE StripZeros(_)
StripZeros(s) ==
    IF s # <<>> /\ Head(s) = "0" THEN StripZeros(Tail(s)) ELSE s

DenotesId(s) ==
    \E a \in 0 .. Len(s), b \in 0 .. Len(s) :
      /\ a + b < Len(s)
      /\ \A i \in 1 .. a : s[i] = " "
      /\ \A i \in (Len(s) - b + 1) .. Len(s) : s[i] = " "
      /\ LET core == SubSeq(s, a + 1, Len(s) - b)
             digs == IF Head(core) = "+" THEN Tail(core) ELSE core
         IN  /\ \A i \in DOMAIN digs : digs[i] \in Digits
             /\ Len(StripZeros(digs)) \in 1 .. 8

C13_ChunkSizeRejected ==
    (argv_c <= 0 /\ phase # "cli") =>
      /\ phase = "error"
      /\ started = <<>>
      /\ saves = <<>>

\* C14 as stated: an empty worklist passed to fixAll yields Done at once, with
\* no fix, no saveToDb and no suspension.
C14_ImmediateDone ==
    (Worklist = <<>> /\ Walking) =>
      /\ phase = "done"
      /\ started = <<>>
      /\ saves = <<>>

\* C14 amended: an empty worklist passed to fixAll invokes no fix and no
\* saveToDb and reports no progress; Done is reported by the first gate check
\* that finds the time inside the window, and until then the walk is suspended
\* as for any other worklist.
C14_EmptyWorklistDoneAtOpenGate ==
    (Worklist = <<>> /\ Walking) =>
      /\ started = <<>>
      /\ saves = <<>>
      /\ progress = <<>>
      /\ idChunks = <<>>
      /\ phase \in {"done", "sleeping"}
      /\ phase = "done" <=> isWithinTimeinterval(argv_t, now)

\* fixAll was called with an empty worklist inside the window
C14_Witness ==
    /\ ValidIds(file) # <<>>
    /\ Worklist = <<>>
    /\ argv_t # NoWindow
    /\ phase = "done"

\* C17: when the walk reports Done every saveToDb call it issued has settled,
\* and if none of them failed the backup store holds an entry under the
\* walk's batch id for exactly the ids whose fix succeeded.
C17_BackupCompleteAtDone ==
    phase = "done" =>
      /\ \A k \in DOMAIN saves : saves[k].state # "pending"
      /\ (\A k \in DOMAIN saves : saves[k].state = "saved") =>
           /\ \A i \in DOMAIN db : db[i].batchId = batchId /\ db[i].recordId \in
                {started[j] : j \in DOMAIN started}
           /\ Len(db) <= Len(started)

\* C19: checkEnvVars throws exactly when VALIDATE_API is unset or creds is true
\* and VALIDATE_USER or VALIDATE_PASS is unset, and returns true otherwise; on
\* the fixmultiple path a missing variable stops the run before any fix.
C19_CheckEnvVars ==
    /\ (call.op = "checkEnvVars" /\ call.creds \in {"true", "false"}) =>
         (call.ret # "true" <=>
            \/ ~processEnv.VALIDATE_API
            \/ /\ call.creds = "true"
               /\ ~processEnv.VALIDATE_USER \/ ~processEnv.VALIDATE_PASS)
    /\ (processEnv # FullEnv /\ phase \notin {"cli", "ops"}) =>
         (phase = "error" /\ started = <<>>)

\* C18: the fix branch calls saveToDb exactly once, with the one outcome of
\* fix and a generated batch id, when fix resolved, and not at all when fix
\* rejected; Success is logged only when both fix and saveToDb succeeded, and
\* a rejection of either is logged as a failure.
C18_SingleFixBackup ==
    (call.op = "cli -f" /\ ~call.thrown) =>
      /\ call.fixRet.kind = "ok" =>
           /\ Len(call.saveCalls) = 1
           /\ call.saveCalls[1].outcomes = <<[state |-> "value", res |-> call.fixRet.value]>>
           /\ call.saveCalls[1].batchId \in BatchIds
           /\ call.fixRet.updates # <<>>
      /\ call.fixRet.kind # "ok" => (call.saveCalls = <<>> /\ db = <<>>)
      /\ call.log = "Success." <=> (call.fixRet.kind = "ok" /\ call.saveOk)
      /\ call.log # "Success." => call.log = "Updating record failed"
      /\ db # <<>> => call.log = "Success."

\* the fix branch ran for an id whose update was rejected
C18_Witness ==
    /\ call.op = "cli -f"
    /\ ~call.thrown
    /\ isValid(call.id)
    /\ call.fixRet.kind = "rejected"
    /\ call.fixRet.error = "UpdateFailed"

\* C20: the legacy validateAndFix issues a remote update only with a record
\* that was fetched and validated, and none when the catalog has no record,
\* the id is invalid or fetch or validation fails.
C20_LegacyUpdateOnlyValidated ==
    call.op = "validateAndFix" =>
      /\ \A i \in DOMAIN call.ret.updates : ~call.ret.updates[i].null
      /\ (~isValid(call.id) \/ call.env.load # "ok" \/ ~ValidatorPasses(call.id, call.env))
           => call.ret.updates = <<>>

\* C15: revertToPrevious(batchId) issues exactly one remote update per entry
\* of that batch, with that entry's originalSnapshot, and none for an entry of
\* another batch, also one of the same record; a rejected update does not
\* stop the updates of the other entries, and the store is left as it was.
C15_RevertBatch ==
    (call.op = "cli -b" /\ ~call.thrown) =>
      /\ db = call.before
      /\ \A i \in 1 .. Len(db) :
           Cardinality({j \in DOMAIN call.updates : call.updates[j].entry = i})
             = (IF db[i].batchId = call.b THEN 1 ELSE 0)
      /\ \A j \in DOMAIN call.updates :
           /\ call.updates[j].entry \in 1 .. Len(db)
           /\ call.updates[j].record = db[call.updates[j].entry].originalSnapshot
      /\ DOMAIN call.results = DOMAIN call.updates
      /\ \A j \in DOMAIN call.results :
           call.results[j] = "failed" <=> call.updates[j].entry \in call.fails

\* a batch was reverted whose first update was rejected, with an entry of
\* another batch for the same record in the store
C15_Witness ==
    /\ call.op = "cli -b" /\ ~call.thrown
    /\ Len(call.updates) = 1
    /\ call.results[1] = "failed"
    /\ \E i \in 1 .. Len(db) :
         /\ db[i].batchId # call.b
         /\ db[i].recordId = db[call.updates[1].entry].recordId

\* C16: revertSingle(id) issues one remote update, with the originalSnapshot
\* of the entry of id inserted last over all batches, and returns true when
\* the update succeeds; without an entry of id it returns false and issues no
\* update; the store is left as it was.
C16_RevertSingle ==
    (call.op = "cli -u" /\ ~call.thrown) =>
      /\ db = call.before
      /\ IF \A i \in 1 .. Len(db) : db[i].recordId # call.id
         THEN /\ call.ret = "false"
              /\ call.updates = <<>>
              /\ call.log = "not found in the backup database"
         ELSE /\ Len(call.updates) = 1
              /\ \E i \in 1 .. Len(db) :
                   /\ db[i].recordId = call.id
                   /\ \A j \in (i + 1) .. Len(db) : db[j].recordId # call.id
                   /\ call.updates[1] = db[i].originalSnapshot
              /\ call.ret \in {"true", "rejected"}
              /\ call.ret = "true" <=> call.log = "Success."

\* a record with entries of two batches that hold different snapshots was
\* reverted
C16_Witness ==
    /\ call.op = "cli -u" /\ ~call.thrown
    /\ call.ret = "true"
    /\ \E i, j \in 1 .. Len(db) :
         /\ i < j
         /\ db[i].recordId = call.id /\ db[j].recordId = call.id
         /\ db[i].batchId # db[j].batchId
         /\ db[i].originalSnapshot # db[j].originalSnapshot

====
